---- MODULE Spec2Model ----
(***************************************************************************)
(* A model of ubmu/mmx: the Source backends (src/src/source.py), the       *)
(* stateful container reader GenericContainer (src/src/container.py) and   *)
(* the free-function reader derive_container_info / read_chunk /           *)
(* yield_chunks (src/src/iff.py).                                          *)
(*                                                                         *)
(* Bytes are integers 0..255, byte strings and decoded strings are         *)
(* sequences of them (Latin-1 and ASCII decoding map byte b to code point  *)
(* b).  A Python exception is the name of its class in an "err" field.     *)
(***************************************************************************)
EXTENDS Integers, Sequences, FiniteSets, TLC

VARIABLES
    backend,   \* the Source class: BinarySource, ByteSource, FileSource, MmapSource
    stream,    \* what the class wraps: BytesIO, BufferedReader or mmap
    data,      \* the bytes of the source, fixed at construction
    pos,       \* the cursor: the wrapped stream's position, or MmapSource._pos
    impl,      \* which reader the caller runs: "container", "iff" or "source"
    start,     \* the caller's start argument
    structure, \* GenericContainer._structure, or the ContainerLayout handed to yield_chunks
    pc,        \* the reader's position: "init", "scanning", "done", "raised"
    info,      \* header values: read_all's locals, or derive_container_info's result
    hdr_pos,   \* history: the cursor the header parse left
    chunks,    \* GenericContainer._chunks, or the chunks yield_chunks has yielded
    calls,     \* history: the cursor at every call of read_chunk
    ends,      \* history: the cursor after every read_chunk that returned
    ret,       \* what read_all returned
    outcome,   \* the exception that reached the caller, "none" if none
    last,      \* history: the last Source operation and what it returned
    first      \* history: what read_all returned before it was called again

vars == <<backend, stream, data, pos, impl, start, structure, pc, info, hdr_pos,
          chunks, calls, ends, ret, outcome, last, first>>

----------------------------------------------------------------------------
(* Bounds of the model                                                     *)

MaxChunks == 2

MaxCut == 3

MaxPos == 12

\* Python integers are unbounded, TLC's are 32 bits wide: a size field whose
\* value is IntCap or more is read as IntCap, far above every source length
\* of the model, so that every comparison with a length is decided as in
\* Python.
IntCap == 2^30

----------------------------------------------------------------------------
(* Program constants: src/src/common.py                                    *)

MMX_BE == "big"

MMX_LE == "little"

IFF_ALIGNMENT == 2

IFF_IDENTIFIER_LENGTH == 4

IFF_SIZE_LENGTH == 4

W64_ALIGNMENT == 8

W64_OVERHEAD == 24

W64_IDENTIFIER_LENGTH == 16

W64_SIZE_LENGTH == 8

----------------------------------------------------------------------------
(* Python primitives                                                       *)

Min(a, b) == IF a < b THEN a ELSE b

Max(a, b) == IF a > b THEN a ELSE b

\* A slice index as Python adjusts it to a sequence of length n.
SliceIndex(i, n) == IF i < 0 THEN Max(i + n, 0) ELSE Min(i, n)

\* d[a:b]
PySlice(d, a, b) ==
    LET lo == SliceIndex(a, Len(d))
        hi == SliceIndex(b, Len(d))
    IN  IF lo >= hi THEN <<>> ELSE SubSeq(d, lo + 1, hi)

RECURSIVE FromLittle(_)
\* int.from_bytes(bs, "little"), capped at IntCap
FromLittle(bs) ==
    IF bs = <<>> THEN 0
    ELSE LET rest == FromLittle(Tail(bs))
         IN  IF rest >= IntCap \div 256 THEN IntCap
             ELSE Min(IntCap, Head(bs) + 256 * rest)

Reverse(bs) == [i \in 1..Len(bs) |-> bs[Len(bs) + 1 - i]]

\* A faulty conversion: every size field is read big-endian.
FromBytes_big(bs, endian) == FromLittle(Reverse(bs))

\* int.from_bytes(bs, byteorder=endian)
FromBytes(bs, endian) ==
    IF endian = MMX_LE THEN FromLittle(bs) ELSE FromLittle(Reverse(bs))

\* bytes.decode("latin-1"): every byte is a code point, no error.
DecodeLatin(bs) == [err |-> "none", val |-> bs]

\* bytes.decode("ascii"): a byte above 127 raises UnicodeDecodeError.
DecodeAscii(bs) ==
    IF \E i \in 1..Len(bs) : bs[i] > 127
    THEN [err |-> "UnicodeDecodeError", val |-> <<>>]
    ELSE [err |-> "none", val |-> bs]

\* str(uuid.UUID(bytes_le=bs)).upper(): ValueError unless bs holds 16 bytes;
\* the first three fields are stored little-endian.  The string is held as
\* its 16 bytes in the order the hexadecimal digits are printed.
DecodeGuid(bs) ==
    IF Len(bs) # 16
    THEN [err |-> "ValueError", val |-> <<>>]
    ELSE [err |-> "none",
          val |-> <<bs[4], bs[3], bs[2], bs[1], bs[6], bs[5], bs[8], bs[7]>>
                  \o SubSeq(bs, 9, 16)]

----------------------------------------------------------------------------
(* Source: src/src/source.py.  Every operation is an operator of the       *)
(* wrapped stream k, the bytes d and the cursor p, and gives the new       *)
(* cursor, the bytes returned and the exception raised.                    *)

Backends == {"BinarySource", "ByteSource", "FileSource", "MmapSource"}

\* What source_normalize / the constructors wrap for each class.
Wraps(b) ==
    CASE b = "ByteSource"   -> {"BytesIO"}
      [] b = "BinarySource" -> {"BytesIO", "BufferedReader"}
      [] b = "FileSource"   -> {"BufferedReader"}
      [] b = "MmapSource"   -> {"mmap"}

\* io.BytesIO.read: the bytes from the cursor to the end of the stream, at
\* most n of them when n >= 0.
BytesIORead(d, p, n) ==
    LET bs == IF p >= Len(d) THEN <<>>
              ELSE SubSeq(d, p + 1, IF n < 0 THEN Len(d) ELSE Min(Len(d), p + n))
    IN  [err |-> "none", bytes |-> bs, pos |-> p + Len(bs)]

\* io.BufferedReader.read: the same, but a length below -1 is a ValueError.
BufferedReaderRead(d, p, n) ==
    IF n < -1 THEN [err |-> "ValueError", bytes |-> <<>>, pos |-> p]
    ELSE BytesIORead(d, p, n)

\* The read of the stream a stream-based Source wraps.
StreamRead(k, d, p, n) ==
    IF k = "BufferedReader" THEN BufferedReaderRead(d, p, n) ELSE BytesIORead(d, p, n)

\* The cursor MmapSource.read leaves: start + size, whatever the map holds.
MmapReadPos(d, p, n) == p + (IF n < 0 THEN Len(d) - p ELSE n)

\* MmapSource.read
MmapRead(d, p, n) ==
    [err |-> "none", bytes |-> PySlice(d, p, MmapReadPos(d, p, n)),
     pos |-> MmapReadPos(d, p, n)]

\* Source.read(size)
SourceRead(k, d, p, n) ==
    IF k = "mmap" THEN MmapRead(d, p, n) ELSE StreamRead(k, d, p, n)

\* The position a seek asks for.
SeekTarget(d, p, off, whence) ==
    CASE whence = 0 -> off
      [] whence = 1 -> p + off
      [] whence = 2 -> Len(d) + off

\* A faulty seek: every seek is taken as absolute.
SourceSeek_absolute(k, d, p, off, whence) ==
    IF k # "mmap" /\ off < 0
    THEN [err |-> IF k = "BytesIO" THEN "ValueError" ELSE "OSError", pos |-> p]
    ELSE [err |-> "none", pos |-> off]

\* Source.seek(offset, whence), whence in 0..2
SourceSeek(k, d, p, off, whence) ==
    LET t == SeekTarget(d, p, off, whence)
    IN  CASE k = "mmap" -> [err |-> "none", pos |-> t]
          [] k = "BytesIO" ->
                IF whence = 0 /\ off < 0
                THEN [err |-> "ValueError", pos |-> p]
                ELSE [err |-> "none", pos |-> Max(t, 0)]
          [] k = "BufferedReader" ->
                IF t < 0
                THEN [err |-> "OSError", pos |-> p]
                ELSE [err |-> "none", pos |-> t]

\* Source.read_at_offset(offset, size)
SourceReadAtOffset(k, d, p, off, n) ==
    IF k = "mmap"
    THEN [err |-> "none", bytes |-> PySlice(d, off, off + n), pos |-> p]
    ELSE LET s == SourceSeek(k, d, p, off, 0)
         IN  IF s.err # "none"
             THEN [err |-> s.err, bytes |-> <<>>, pos |-> s.pos]
             ELSE StreamRead(k, d, s.pos, n)

\* Source.reset()
SourceReset(k, d, p) == [err |-> "none", pos |-> 0]

\* Source.tell()
SourceTell(k, d, p) == p

\* Source.__len__()
SourceLen(k, d, p) == Len(d)

----------------------------------------------------------------------------
(* GenericContainer: src/src/container.py                                  *)

ContainerStructure(format, endian, idl, szl, al, ov, css) ==
    [format |-> format, endian |-> endian, identifier_length |-> idl,
     payload_size_length |-> szl, alignment |-> al, overhead |-> ov,
     chunk_size_storage |-> css]

IFF_STRUCTURE ==
    ContainerStructure("IFF", MMX_BE, IFF_IDENTIFIER_LENGTH, IFF_SIZE_LENGTH,
                       IFF_ALIGNMENT, 0, "None")

RIFF_STRUCTURE ==
    ContainerStructure("RIFF", MMX_LE, IFF_IDENTIFIER_LENGTH, IFF_SIZE_LENGTH,
                       IFF_ALIGNMENT, 0, "None")

RIFX_STRUCTURE ==
    ContainerStructure("RIFX", MMX_BE, IFF_IDENTIFIER_LENGTH, IFF_SIZE_LENGTH,
                       IFF_ALIGNMENT, 0, "None")

RF64_STRUCTURE ==
    ContainerStructure("RF64", MMX_LE, IFF_IDENTIFIER_LENGTH, IFF_SIZE_LENGTH,
                       IFF_ALIGNMENT, 0, "{}")

W64_STRUCTURE ==
    ContainerStructure("W64", MMX_LE, W64_IDENTIFIER_LENGTH, W64_SIZE_LENGTH,
                       W64_ALIGNMENT, W64_OVERHEAD, "None")

\* A faulty padding: the seek after the payload goes back to where the
\* chunk of a 32-bit family started.
Padding_rewind(alignment, size) ==
    0 - (size + IFF_IDENTIFIER_LENGTH + IFF_SIZE_LENGTH)

\* The padding both readers skip after a payload of the given size.
Padding(alignment, size) == (alignment - (size % alignment)) % alignment

\* GenericContainer.align_source: the cursor after the relative seek.
align_source(st, k, d, p, payload_size) ==
    IF Padding(st.alignment, payload_size) # 0
    THEN SourceSeek(k, d, p, Padding(st.alignment, payload_size), 1)
    ELSE [err |-> "none", pos |-> p]

\* GenericContainer.read_generic_identifier
read_generic_identifier(st, k, d, p) ==
    LET r == SourceRead(k, d, p, st.identifier_length)
        s == DecodeAscii(r.bytes)
    IN  [err |-> s.err, val |-> s.val, pos |-> r.pos]

\* GenericContainer.read_guid
read_guid(st, k, d, p) ==
    LET r == SourceRead(k, d, p, st.identifier_length)
        s == DecodeGuid(r.bytes)
    IN  [err |-> s.err, val |-> s.val, pos |-> r.pos]

\* self.read_identifier, as __init__ binds it.
read_identifier(st, k, d, p) ==
    IF st.format = "W64" THEN read_guid(st, k, d, p)
    ELSE read_generic_identifier(st, k, d, p)

\* GenericContainer.read_size
read_size(st, k, d, p) ==
    LET r == SourceRead(k, d, p, st.payload_size_length)
    IN  [err |-> "none", val |-> FromBytes(r.bytes, st.endian) - st.overhead,
         pos |-> r.pos]

\* GenericContainer.read_payload
read_payload(st, k, d, p, payload_size) == SourceRead(k, d, p, payload_size)

\* GenericContainer.read_generic_header
read_generic_header(st, k, d, p) ==
    LET m == read_identifier(st, k, d, p)
        z == read_size(st, k, d, m.pos)
        f == read_identifier(st, k, d, z.pos)
    IN  IF m.err # "none" THEN [err |-> m.err, pos |-> m.pos]
        ELSE IF f.err # "none" THEN [err |-> f.err, pos |-> f.pos]
        ELSE [err |-> "none", pos |-> f.pos,
              master |-> m.val, eos |-> z.val, form |-> f.val]

\* GenericContainer.read_rf_header returns the empty tuple, which read_all
\* cannot unpack into master, eos, form.
read_rf_header(st, k, d, p) == [err |-> "ValueError", pos |-> p]

\* self.read_header, as __init__ binds it.
read_header(st, k, d, p) ==
    IF st.format = "RF64" THEN read_rf_header(st, k, d, p)
    ELSE read_generic_header(st, k, d, p)

\* GenericContainer.ensure_fields_room: TRUE when it raises EOSError.
ensure_fields_room(st, d, offset) ==
    offset + (st.identifier_length + st.payload_size_length) > Len(d)

\* GenericContainer.ensure_payload_room: TRUE when it raises EOSError.
ensure_payload_room(d, payload_size, offset) ==
    offset + payload_size > Len(d)

Chunk(identifier, size, payload, start_offset) ==
    [identifier |-> identifier, size |-> size, payload |-> payload,
     start |-> start_offset]

\* GenericContainer.read_chunk
GenericContainer_read_chunk(st, k, d, p) ==
    LET id  == read_identifier(st, k, d, p)
        sz  == read_size(st, k, d, id.pos)
        pay == read_payload(st, k, d, sz.pos, sz.val)
        al  == align_source(st, k, d, pay.pos, sz.val)
    IN  IF ensure_fields_room(st, d, p) THEN [err |-> "EOSError", pos |-> p]
        ELSE IF id.err # "none" THEN [err |-> id.err, pos |-> id.pos]
        ELSE IF ensure_payload_room(d, sz.val, sz.pos)
             THEN [err |-> "EOSError", pos |-> sz.pos]
        ELSE IF pay.err # "none" THEN [err |-> pay.err, pos |-> pay.pos]
        ELSE [err |-> "none", pos |-> al.pos,
              chunk |-> Chunk(id.val, sz.val, pay.bytes, p)]

\* The ContainerInfo read_all returns.
ContainerInfo(master, eos, form, cs, st) ==
    [master |-> master, eos |-> eos, form |-> form, chunks |-> cs,
     structure |-> st]

----------------------------------------------------------------------------
(* The free-function reader: src/src/iff.py                                *)

\* Master tags, as the byte strings the probe reads.
FORM == <<70, 79, 82, 77>>

RIFX == <<82, 73, 70, 88>>

FFIR == <<70, 70, 73, 82>>

RF64 == <<82, 70, 54, 52>>

riff == <<114, 105, 102, 102>>

RIFF == <<82, 73, 70, 70>>

\* A faulty table: a tag it does not hold is taken as RIFF.
CONTAINER_ENDIANNESS_default(master) ==
    CASE master = FORM -> <<"big", "IFF">>
      [] master = RIFX -> <<"big", "RIFF">>
      [] master = FFIR -> <<"big", "RIFF">>
      [] master = RF64 -> <<"little", "RF64">>
      [] master = riff -> <<"little", "W64">>
      [] OTHER         -> <<"little", "RIFF">>

\* A faulty table: FFIR, the byte-swapped spelling, is taken as little-endian.
CONTAINER_ENDIANNESS_ffir_little(master) ==
    CASE master = FORM -> <<"big", "IFF">>
      [] master = RIFX -> <<"big", "RIFF">>
      [] master = FFIR -> <<"little", "RIFF">>
      [] master = RF64 -> <<"little", "RF64">>
      [] master = riff -> <<"little", "W64">>
      [] master = RIFF -> <<"little", "RIFF">>
      [] OTHER         -> <<"None", "None">>

\* CONTAINER_ENDIANNESS.get(master, (None, None))
CONTAINER_ENDIANNESS(master) ==
    CASE master = FORM -> <<"big", "IFF">>
      [] master = RIFX -> <<"big", "RIFF">>
      [] master = FFIR -> <<"big", "RIFF">>
      [] master = RF64 -> <<"little", "RF64">>
      [] master = riff -> <<"little", "W64">>
      [] master = RIFF -> <<"little", "RIFF">>
      [] OTHER         -> <<"None", "None">>

ContainerMetadata(master, endian, container_type, form_type, size) ==
    [master |-> master, endian |-> endian, container_type |-> container_type,
     form_type |-> form_type, size |-> size]

\* ContainerLayout with its defaults: ContainerLayout(endian)
ContainerLayout(endian, encoding, idl, szl, al, ov) ==
    [endian |-> endian, encoding |-> encoding, identifier_length |-> idl,
     payload_size_length |-> szl, alignment |-> al, overhead |-> ov,
     chunk_size_storage |-> "{}"]

IffContainerInfo(metadata, layout) == [metadata |-> metadata, layout |-> layout]

\* The layout _parse_w64_header builds.
W64Layout(endian) ==
    ContainerLayout(endian, "", W64_IDENTIFIER_LENGTH, W64_SIZE_LENGTH,
                    IFF_ALIGNMENT, W64_OVERHEAD)

\* The layout derive_container_info builds for the 32-bit families.
GenericLayout(endian) ==
    ContainerLayout(endian, "latin-1", IFF_IDENTIFIER_LENGTH, IFF_SIZE_LENGTH,
                    IFF_ALIGNMENT, 0)

\* _parse_w64_header
parse_w64_header(k, d, p, endian, container_type, st) ==
    LET r0 == SourceReset(k, d, p)
        m  == SourceRead(k, d, r0.pos, W64_IDENTIFIER_LENGTH)
        mg == DecodeGuid(m.bytes)
        z  == SourceRead(k, d, m.pos, W64_SIZE_LENGTH)
        f  == SourceRead(k, d, z.pos, W64_IDENTIFIER_LENGTH)
    IN  IF mg.err # "none" THEN [err |-> mg.err, pos |-> m.pos]
        ELSE [err |-> "none", pos |-> f.pos,
              info |-> IffContainerInfo(
                  ContainerMetadata(mg.val, endian, container_type,
                                    DecodeLatin(f.bytes).val,
                                    FromBytes(z.bytes, endian) - W64_OVERHEAD),
                  W64Layout(endian))]

\* _parse_rf64_header: ContainerInfo() without its two required arguments.
parse_rf64_header(k, d, p, endian, container_type, st) ==
    [err |-> "TypeError", pos |-> p]

\* derive_container_info(source, start)
derive_container_info(k, d, p, st) ==
    LET s0 == SourceSeek(k, d, p, st, 0)
        m  == SourceRead(k, d, s0.pos, 4)
        master == DecodeLatin(m.bytes).val
        endian == CONTAINER_ENDIANNESS(master)[1]
        container_type == CONTAINER_ENDIANNESS(master)[2]
        z  == SourceRead(k, d, m.pos, IFF_SIZE_LENGTH)
        f  == SourceRead(k, d, z.pos, IFF_IDENTIFIER_LENGTH)
    IN  IF s0.err # "none" THEN [err |-> s0.err, pos |-> s0.pos]
        ELSE IF endian = "None"
             THEN [err |-> "InvalidContainerError", pos |-> m.pos]
        ELSE IF master = riff
             THEN parse_w64_header(k, d, m.pos, endian, container_type, st)
        ELSE IF master = RF64
             THEN parse_rf64_header(k, d, m.pos, endian, container_type, st)
        ELSE [err |-> "none", pos |-> f.pos,
              info |-> IffContainerInfo(
                  ContainerMetadata(master, endian, container_type,
                                    DecodeLatin(f.bytes).val,
                                    FromBytes(z.bytes, endian)),
                  GenericLayout(endian))]

IffChunk(identifier, size, payload, start_offset, end_offset) ==
    [identifier |-> identifier, size |-> size, payload |-> payload,
     start |-> start_offset, end |-> end_offset]

\* The length read_chunk asks the source for as the payload.
PayloadRequest(layout, payload_size) == payload_size - layout.overhead

\* read_chunk(source, layout)
read_chunk(layout, k, d, p) ==
    LET fields == layout.identifier_length + layout.payload_size_length
        idb == SourceRead(k, d, p, layout.identifier_length)
        id  == IF layout.encoding = "" THEN DecodeGuid(idb.bytes)
               ELSE DecodeLatin(idb.bytes)
        szb == SourceRead(k, d, idb.pos, layout.payload_size_length)
        payload_size == FromBytes(szb.bytes, layout.endian)
        pay == SourceRead(k, d, szb.pos, PayloadRequest(layout, payload_size))
        padding == IF layout.alignment # 0
                   THEN Padding(layout.alignment, payload_size) ELSE 0
        al  == IF padding # 0 THEN SourceSeek(k, d, pay.pos, padding, 1)
               ELSE [err |-> "none", pos |-> pay.pos]
    IN  IF p + fields > Len(d) THEN [err |-> "EOSError", pos |-> p]
        ELSE IF id.err # "none" THEN [err |-> id.err, pos |-> idb.pos]
        ELSE IF (p + fields) + payload_size - layout.overhead > Len(d)
             THEN [err |-> "EOSError", pos |-> szb.pos]
        ELSE IF pay.err # "none" THEN [err |-> pay.err, pos |-> pay.pos]
        ELSE [err |-> "none", pos |-> al.pos,
              chunk |-> IffChunk(id.val, payload_size, pay.bytes, p,
                                 SourceTell(k, d, al.pos))]

\* yield_chunks: whether the loop runs once more.
yield_chunks_guard(layout, k, d, p) ==
    layout.identifier_length + layout.payload_size_length + SourceTell(k, d, p)
        < SourceLen(k, d, p)

\* read_all: whether the loop runs once more.
read_all_guard(eos, k, d, p) == SourceTell(k, d, p) < eos

----------------------------------------------------------------------------
(* The sources the readers are run on: a header, up to MaxChunks chunks    *)
(* laid out as the family lays them out, up to MaxCut bytes cut off the    *)
(* end, and the start argument's bytes of other data in front.             *)

None == [none |-> TRUE]

JUNK == <<74, 85, 78, 75>>

Riff == <<82, 105, 102, 102>>

WAVE == <<87, 65, 86, 69>>

DATA == <<68, 65, 84, 65>>

Tags == {FORM, RIFX, FFIR, RF64, riff, RIFF, JUNK, Riff}

\* The last 12 bytes of the Sony Wave64 GUIDs riff, and of wave, fmt, data.
RiffGuidTail == <<46, 145, 207, 17, 165, 214, 40, 219, 4, 193, 0, 0>>

WaveGuidTail == <<243, 172, 211, 17, 140, 209, 0, 192, 79, 142, 219, 138>>

ChunkNames == << <<102, 109, 116, 32>>, <<100, 97, 116, 97>>, <<76, 73, 83, 84>> >>

ChunkName(i) == ChunkNames[((i - 1) % Len(ChunkNames)) + 1]

RECURSIVE ToLittle(_, _)
ToLittle(n, w) ==
    IF w = 0 THEN <<>> ELSE <<n % 256>> \o ToLittle(n \div 256, w - 1)

ToBytes(n, w, endian) ==
    IF endian = MMX_LE THEN ToLittle(n, w) ELSE Reverse(ToLittle(n, w))

Zeros(n) == [i \in 1..n |-> 0]

PayloadBytes(n) == [i \in 1..n |-> DATA[((i - 1) % Len(DATA)) + 1]]

WrittenEndian(tag) == IF tag \in {FORM, RIFX, FFIR} THEN MMX_BE ELSE MMX_LE

HeaderSizes(tag) == IF tag = riff THEN {8, 88, 160} ELSE {0, 20, 36}

RawSizes(tag) == IF tag = riff THEN {8, 24, 27, 32} ELSE {0, 3, 4}

HeaderCuts == {6, 10, 30}

Starts == {0, 2}

HeaderBytes(tag, h) ==
    IF tag = riff
    THEN riff \o RiffGuidTail \o ToBytes(h, W64_SIZE_LENGTH, MMX_LE)
         \o <<119, 97, 118, 101>> \o WaveGuidTail
    ELSE tag \o ToBytes(h, IFF_SIZE_LENGTH, WrittenEndian(tag)) \o WAVE

ChunkBytes(tag, i, raw) ==
    IF tag = riff
    THEN LET n == Max(raw - W64_OVERHEAD, 0)
         IN  ChunkName(i) \o WaveGuidTail \o ToBytes(raw, W64_SIZE_LENGTH, MMX_LE)
             \o PayloadBytes(n) \o Zeros(Padding(W64_ALIGNMENT, n))
    ELSE ChunkName(i) \o ToBytes(raw, IFF_SIZE_LENGTH, WrittenEndian(tag))
         \o PayloadBytes(raw) \o Zeros(Padding(IFF_ALIGNMENT, raw))

RECURSIVE ChunksBytes(_, _, _)
ChunksBytes(tag, raws, i) ==
    IF i > Len(raws) THEN <<>>
    ELSE ChunkBytes(tag, i, raws[i]) \o ChunksBytes(tag, raws, i + 1)

CutEnd(bs, c) == SubSeq(bs, 1, Max(Len(bs) - c, 0))

SourceBytes(st, tag, h, raws, c) ==
    CutEnd([i \in 1..st |-> 120] \o HeaderBytes(tag, h) \o ChunksBytes(tag, raws, 1), c)

\* The structures a caller gives GenericContainer for a source with this
\* tag: the family's own; GenericContainer does not look at the tag, and two
\* tags of no family are read as RIFF and as W64.
StructuresFor(tag) ==
    CASE tag = FORM -> {IFF_STRUCTURE}
      [] tag \in {RIFX, FFIR} -> {RIFX_STRUCTURE}
      [] tag = RF64 -> {RF64_STRUCTURE, RIFF_STRUCTURE}
      [] tag = riff -> {W64_STRUCTURE}
      [] tag = RIFF -> {RIFF_STRUCTURE}
      [] tag = JUNK -> {RIFF_STRUCTURE}
      [] tag = Riff -> {W64_STRUCTURE}

----------------------------------------------------------------------------
(* The readers as state machines                                           *)

\* A source is constructed (mmap cannot map an empty file), then either a
\* GenericContainer over it with a structure of the caller's choice, or
\* nothing more: derive_container_info takes the source as it is.
Init ==
    \E b \in Backends, tag \in Tags, st \in Starts, n \in 0..MaxChunks :
    \E k \in Wraps(b), h \in HeaderSizes(tag), raws \in [1..n -> RawSizes(tag)],
       c \in (0..MaxCut) \cup (IF n = 0 THEN HeaderCuts ELSE {}) :
        /\ backend = b
        /\ stream = k
        /\ data = SourceBytes(st, tag, h, raws, c)
        /\ (k = "mmap" => data # <<>>)
        /\ pos = 0
        /\ \/ impl = "container" /\ structure \in StructuresFor(tag)
           \/ impl = "iff" /\ structure = None
        /\ start = st
        /\ pc = "init"
        /\ info = None
        /\ hdr_pos = 0
        /\ chunks = <<>>
        /\ calls = <<>>
        /\ ends = <<>>
        /\ ret = None
        /\ outcome = "none"
        /\ last = None
        /\ first = None

\* read_all, up to its loop: the header is read.
ReadAllHeader ==
    /\ impl = "container" /\ pc = "init"
    /\ LET h == read_header(structure, stream, data, pos)
       IN  /\ pos' = h.pos
           /\ hdr_pos' = h.pos
           /\ IF h.err # "none"
              THEN /\ pc' = "raised" /\ outcome' = h.err /\ info' = info
              ELSE /\ pc' = "scanning" /\ outcome' = outcome
                   /\ info' = [master |-> h.master, eos |-> h.eos, form |-> h.form]
    /\ UNCHANGED <<backend, stream, data, impl, start, structure, chunks, calls,
                   ends, ret, last, first>>

\* read_all: one turn of the loop, or the return after it.
ReadAllStep ==
    /\ impl = "container" /\ pc = "scanning"
    /\ IF read_all_guard(info.eos, stream, data, pos)
       THEN LET r == GenericContainer_read_chunk(structure, stream, data, pos)
            IN  /\ calls' = Append(calls, pos)
                /\ pos' = r.pos
                /\ CASE r.err = "none" ->
                          /\ chunks' = Append(chunks, r.chunk)
                          /\ ends' = Append(ends, r.pos)
                          /\ UNCHANGED <<pc, ret, outcome>>
                     [] r.err = "EOSError" ->
                          /\ pc' = "done"
                          /\ ret' = ContainerInfo(info.master, info.eos, info.form,
                                                  chunks, structure)
                          /\ UNCHANGED <<chunks, ends, outcome>>
                     [] OTHER ->
                          /\ pc' = "raised" /\ outcome' = r.err
                          /\ UNCHANGED <<chunks, ends, ret>>
       ELSE /\ pc' = "done"
            /\ ret' = ContainerInfo(info.master, info.eos, info.form, chunks, structure)
            /\ UNCHANGED <<pos, chunks, calls, ends, outcome>>
    /\ UNCHANGED <<backend, stream, data, impl, start, structure, info, hdr_pos, last,
                   first>>

\* The caller of the free functions: derive_container_info(source, start),
\* whose layout it hands to yield_chunks.
DeriveContainerInfo ==
    /\ impl = "iff" /\ pc = "init"
    /\ LET r == derive_container_info(stream, data, pos, start)
       IN  /\ pos' = r.pos
           /\ hdr_pos' = r.pos
           /\ IF r.err # "none"
              THEN /\ pc' = "raised" /\ outcome' = r.err
                   /\ UNCHANGED <<info, structure>>
              ELSE /\ pc' = "scanning" /\ outcome' = outcome
                   /\ info' = r.info /\ structure' = r.info.layout
    /\ UNCHANGED <<backend, stream, data, impl, start, chunks, calls, ends, ret, last,
                   first>>

\* yield_chunks, resumed once by its consumer: the next chunk is yielded,
\* the generator ends, or read_chunk's exception is raised again.
YieldChunksNext ==
    /\ impl = "iff" /\ pc = "scanning"
    /\ IF yield_chunks_guard(structure, stream, data, pos)
       THEN LET r == read_chunk(structure, stream, data, pos)
            IN  /\ calls' = Append(calls, pos)
                /\ pos' = r.pos
                /\ IF r.err = "none"
                   THEN /\ chunks' = Append(chunks, r.chunk)
                        /\ ends' = Append(ends, r.pos)
                        /\ UNCHANGED <<pc, outcome>>
                   ELSE /\ pc' = "raised" /\ outcome' = r.err
                        /\ UNCHANGED <<chunks, ends>>
       ELSE /\ pc' = "done"
            /\ UNCHANGED <<pos, chunks, calls, ends, outcome>>
    /\ UNCHANGED <<backend, stream, data, impl, start, structure, info, hdr_pos, ret,
                   last, first>>

Next == ReadAllHeader \/ ReadAllStep \/ DeriveContainerInfo \/ YieldChunksNext

Spec == Init /\ [][Next]_vars

\* The caller of read_all resets the source and calls read_all again on the
\* same GenericContainer: the cursor is at 0 and self._chunks is what the
\* first call left.  The list the first call returned is self._chunks
\* itself; first keeps its value at the time of the return.
ResetAndReadAllAgain ==
    /\ impl = "container" /\ pc = "done" /\ first = None
    /\ first' = ret
    /\ pos' = SourceReset(stream, data, pos).pos
    /\ pc' = "init"
    /\ info' = None
    /\ ret' = None
    /\ calls' = <<>>
    /\ ends' = <<>>
    /\ UNCHANGED <<backend, stream, data, impl, start, structure, hdr_pos, chunks,
                   outcome, last>>

NextRewalk == Next \/ ResetAndReadAllAgain

RewalkSpec == Init /\ [][NextRewalk]_vars

----------------------------------------------------------------------------
(* The Source operations on their own, as tests/test_source.py drives      *)
(* them: any sequence of read, seek, reset and read_at_offset.             *)

TEST_DATA == RIFF \o WAVE

SourceTexts == {TEST_DATA, <<82, 73, 70>>}

ReadSizes == {-1, 0, 1, 4, 5}

SeekOffsets == {-9, -2, 0, 3, 4, 9}

Operation(op, args, r) ==
    [op |-> op, args |-> args, before |-> pos, err |-> r.err,
     bytes |-> IF "bytes" \in DOMAIN r THEN r.bytes ELSE <<>>]

InitSource ==
    /\ backend \in Backends
    /\ stream \in Wraps(backend)
    /\ data \in SourceTexts
    /\ pos = 0
    /\ impl = "source"
    /\ start = 0
    /\ structure = None
    /\ pc = "idle"
    /\ info = None
    /\ hdr_pos = 0
    /\ chunks = <<>>
    /\ calls = <<>>
    /\ ends = <<>>
    /\ ret = None
    /\ outcome = "none"
    /\ last = None
    /\ first = None

\* The cursor stays in the window the model keeps.
InWindow(p) == p \in (0 - MaxPos)..MaxPos

\* What no Source operation touches.
SourceFrame ==
    /\ impl = "source"
    /\ UNCHANGED <<backend, stream, data, impl, start, structure, pc, info, hdr_pos,
                   chunks, calls, ends, ret, outcome, first>>

SrcRead ==
    \E n \in ReadSizes :
        LET r == SourceRead(stream, data, pos, n)
        IN  /\ InWindow(r.pos)
            /\ pos' = r.pos
            /\ last' = Operation("read", <<n>>, r)
            /\ SourceFrame

SrcSeek ==
    \E off \in SeekOffsets, whence \in 0..2 :
        LET r == SourceSeek(stream, data, pos, off, whence)
        IN  /\ InWindow(r.pos)
            /\ pos' = r.pos
            /\ last' = Operation("seek", <<off, whence>>, r)
            /\ SourceFrame

SrcReset ==
    LET r == SourceReset(stream, data, pos)
    IN  /\ pos' = r.pos
        /\ last' = Operation("reset", <<>>, r)
        /\ SourceFrame

SrcReadAtOffset ==
    \E off \in SeekOffsets, n \in ReadSizes :
        LET r == SourceReadAtOffset(stream, data, pos, off, n)
        IN  /\ InWindow(r.pos)
            /\ pos' = r.pos
            /\ last' = Operation("read_at_offset", <<off, n>>, r)
            /\ SourceFrame

NextSource == SrcRead \/ SrcSeek \/ SrcReset \/ SrcReadAtOffset

SourceSpec == InitSource /\ [][NextSource]_vars

----------------------------------------------------------------------------
(* Properties                                                              *)

\* The bytes [a, b) of the source.
RangeBytes(a, b) == IF a >= b THEN <<>> ELSE SubSeq(data, a + 1, b)

\* The value of a byte string, most significant byte first.
RECURSIVE BigValue(_)
BigValue(bs) ==
    IF bs = <<>> THEN 0
    ELSE LET hi == BigValue(SubSeq(bs, 1, Len(bs) - 1))
         IN  IF hi >= IntCap \div 256 THEN IntCap
             ELSE Min(IntCap, 256 * hi + bs[Len(bs)])

ValueOf(bs, endian) == IF endian = "big" THEN BigValue(bs) ELSE BigValue(Reverse(bs))

\* The 4 bytes derive_container_info probes, fewer when the source ends.
Probe == RangeBytes(start, Min(start + 4, Len(data)))

KnownTags == {FORM, RIFX, FFIR, RF64, riff, RIFF}

\* The header parse returned: the walk is on, is over, or raised in a chunk.
HeaderParsed == pc \in {"scanning", "done"} \/ (pc = "raised" /\ calls # <<>>)

\* The size the header declares, once the header is parsed.
DeclaredSize == IF impl = "container" THEN info.eos ELSE info.metadata.size

\* The raw size field of the chunk that starts at offset s.
RawSizeAt(s) ==
    ValueOf(RangeBytes(s + structure.identifier_length,
                       s + structure.identifier_length + structure.payload_size_length),
            structure.endian)

\* Where chunk i ends: the end offset the chunk carries, or for
\* GenericContainer, whose chunks carry none, the cursor read_chunk left.
ChunkEnd(i) == IF impl = "iff" THEN chunks[i].end ELSE ends[i]

\* C1: the chunks a walk produces are in source order without gaps or
\* overlaps: the first starts where the header parse left the cursor, each
\* ends after its own two fields, and each next one starts where the one
\* before it ends.
C1_ChunksContiguous ==
    /\ Len(ends) = Len(chunks)
    /\ chunks # <<>> => chunks[1].start = hdr_pos
    /\ \A i \in 1..Len(chunks) :
          /\ ChunkEnd(i) = ends[i]
          /\ ChunkEnd(i) >= chunks[i].start + structure.identifier_length
                                            + structure.payload_size_length
          /\ i < Len(chunks) =>
                /\ ChunkEnd(i) = chunks[i + 1].start
                /\ chunks[i].start < chunks[i + 1].start

\* C1 witness: two chunks, the first with an odd payload and its padding.
C1_Witness ==
    /\ Len(chunks) = 2
    /\ Len(chunks[1].payload) = 3
    /\ chunks[2].start = chunks[1].start + 12

\* C2: the chunk reader is only called with the cursor below the size the
\* header declares, in read_all and in yield_chunks.
C2_DeclaredSizeBoundsScan ==
    \A i \in 1..Len(calls) : calls[i] < DeclaredSize

\* C3: an EOSError of the chunk reader never reaches the caller of the
\* walker, in read_all and in yield_chunks.
C3_EosNotPropagated == outcome # "EOSError"

\* The walk stopped on an EOSError of the chunk reader.
StoppedByEos == Len(calls) > Len(ends)

\* C4: what read_all returns carries a truncation flag, set when the walk
\* stopped on a chunk that exceeds the source and clear when it reached the
\* declared end, with every chunk read before in it.
C4_TruncationFlag ==
    (impl = "container" /\ pc = "done") =>
        /\ ret.chunks = chunks
        /\ "truncated" \in DOMAIN ret
        /\ ret.truncated = StoppedByEos

\* C5: every chunk produced has a payload of the raw size in the source
\* minus the overhead of the format.
C5_PayloadLength ==
    \A i \in 1..Len(chunks) :
        Len(chunks[i].payload) = RawSizeAt(chunks[i].start) - structure.overhead

\* C6: a source whose probe is "riff" is classified with 16-byte
\* identifiers, 8-byte sizes, 8-byte alignment, 24 bytes of overhead and the
\* 8-byte little-endian master size minus 24 as declared size.
C6_W64Descriptor ==
    (impl = "iff" /\ pc # "init" /\ Probe = riff) =>
        /\ HeaderParsed
        /\ info.layout.identifier_length = 16
        /\ info.layout.payload_size_length = 8
        /\ info.layout.alignment = 8
        /\ info.layout.overhead = 24
        /\ info.metadata.size = ValueOf(RangeBytes(start + 16, start + 24), "little") - 24

\* C7: a probe that is none of the six master tags, a source shorter than
\* 4 bytes included, ends in InvalidContainerError with no metadata, no
\* layout and no chunk.
C7_UnknownProbeInvalid ==
    (impl = "iff" /\ pc # "init" /\ Probe \notin KnownTags) =>
        /\ pc = "raised"
        /\ outcome = "InvalidContainerError"
        /\ info = None
        /\ structure = None
        /\ chunks = <<>>

\* C7 witness: a source shorter than 4 bytes was refused.
C7_Witness ==
    /\ impl = "iff"
    /\ outcome = "InvalidContainerError"
    /\ Len(Probe) < 4
    /\ data # <<>>

\* An RF64 parse: the probe is RF64, or GenericContainer has the RF64 structure.
Rf64Parse ==
    \/ impl = "iff" /\ Probe = RF64
    \/ impl = "container" /\ structure.format = "RF64"

\* C8: an RF64 parse ends in an explicit not-implemented error, with no
\* metadata, layout or chunk.
C8_Rf64NotImplemented ==
    (Rf64Parse /\ pc # "init") =>
        /\ pc = "raised"
        /\ outcome = "NotImplementedError"
        /\ info = None
        /\ chunks = <<>>

\* The master-tag table of the 32-bit families.
TableOf(tag) ==
    CASE tag = FORM -> [endian |-> "big", family |-> "IFF"]
      [] tag = RIFX -> [endian |-> "big", family |-> "RIFF"]
      [] tag = FFIR -> [endian |-> "big", family |-> "RIFF"]
      [] tag = RIFF -> [endian |-> "little", family |-> "RIFF"]

\* What C9 says of a classified source.
HeaderAsClaimed ==
    /\ HeaderParsed
    /\ info.metadata.master = Probe
    /\ info.metadata.endian = TableOf(Probe).endian
    /\ info.metadata.container_type = TableOf(Probe).family
    /\ info.metadata.size =
           ValueOf(RangeBytes(start + 4, Min(start + 8, Len(data))), TableOf(Probe).endian)
    /\ info.metadata.form_type = RangeBytes(start + 8, Min(start + 12, Len(data)))
    /\ info.layout.identifier_length = 4
    /\ info.layout.payload_size_length = 4
    /\ info.layout.alignment = 2
    /\ info.layout.overhead = 0
    /\ hdr_pos = start + 12

\* C9 as stated: every source whose probe is FORM, RIFX, FFIR or RIFF is
\* classified by the table, with the cursor left at start + 12.
C9_AsStated ==
    (impl = "iff" /\ pc # "init" /\ Probe \in {FORM, RIFX, FFIR, RIFF}) =>
        HeaderAsClaimed

\* C9 amended: the same, for a source that holds the 12 bytes of the header
\* at start.
C9_HeaderClassified ==
    (impl = "iff" /\ pc # "init" /\ Probe \in {FORM, RIFX, FFIR, RIFF}
        /\ start + 12 <= Len(data)) =>
        HeaderAsClaimed

\* C9 witness: a big-endian header at a start offset of 2, classified.
C9_Witness ==
    /\ impl = "iff" /\ pc = "scanning"
    /\ start = 2 /\ Probe = FFIR
    /\ info.metadata.size = 20
    /\ hdr_pos = 14

\* C10: a read of n >= 0 bytes from a cursor c inside the source returns
\* the bytes [c, min(c + n, L)), moves the cursor by the number of bytes
\* returned and raises nothing, on every backend.
C10_ReadAdvancesByReturned ==
    (impl = "source" /\ last # None /\ last.op = "read" /\ last.args[1] >= 0
        /\ last.before >= 0) =>
        /\ last.err = "none"
        /\ last.bytes = RangeBytes(last.before,
                                   Min(last.before + last.args[1], Len(data)))
        /\ pos = last.before + Len(last.bytes)

\* The bytes an operation returned, none for seek and reset.
BytesOf(r) == IF "bytes" \in DOMAIN r THEN r.bytes ELSE <<>>

\* The operation recorded in last, made on a source that wraps stream k.
SourceCall(k, d, p, op, args) ==
    CASE op = "read"           -> SourceRead(k, d, p, args[1])
      [] op = "seek"           -> SourceSeek(k, d, p, args[1], args[2])
      [] op = "reset"          -> SourceReset(k, d, p)
      [] op = "read_at_offset" -> SourceReadAtOffset(k, d, p, args[1], args[2])

\* C11: read_at_offset(offset, n) with offset >= 0 and n >= 0 returns the
\* bytes [offset, min(offset + n, L)), raises nothing and leaves the cursor
\* where it was, on every backend.
C11_ReadAtOffsetFrame ==
    (impl = "source" /\ last # None /\ last.op = "read_at_offset"
        /\ last.args[1] >= 0 /\ last.args[2] >= 0) =>
        /\ last.err = "none"
        /\ last.bytes = RangeBytes(last.args[1],
                                   Min(last.args[1] + last.args[2], Len(data)))
        /\ pos = last.before

\* C12: an operation made on the memory-mapped backend from a cursor inside
\* the source, which every backend can be brought to, returns the same
\* bytes, raises or not and leaves the same tell() as the same operation
\* made from that cursor on the stream-based backends.
C12_BackendsAgree ==
    (impl = "source" /\ last # None /\ stream = "mmap"
        /\ last.before \in 0..Len(data)) =>
        \A k \in {"BytesIO", "BufferedReader"} :
            LET r == SourceCall(k, data, last.before, last.op, last.args)
            IN  /\ (r.err = "none") = (last.err = "none")
                /\ BytesOf(r) = last.bytes
                /\ SourceTell(k, data, r.pos) = SourceTell(stream, data, pos)

\* C13: seek(offset, whence) raises nothing and leaves the cursor at offset,
\* at cursor + offset or at L + offset; reset leaves it at 0; a read from a
\* cursor beyond the end returns no byte and raises nothing.
C13_SeekSetsCursor ==
    (impl = "source" /\ last # None) =>
        /\ last.op = "seek" =>
              /\ last.err = "none"
              /\ SourceTell(stream, data, pos)
                     = SeekTarget(data, last.before, last.args[1], last.args[2])
        /\ last.op = "reset" => SourceTell(stream, data, pos) = 0
        /\ (last.op = "read" /\ last.before > Len(data)) =>
              last.err = "none" /\ last.bytes = <<>>

\* b"RIFF" + u32_le(36) + b"WAVE" + b"fmt " + u32_le(4) + b"DATA"
Scenario1 ==
    RIFF \o ToLittle(36, 4) \o WAVE \o ChunkName(1) \o ToLittle(4, 4) \o DATA

\* The header values of the walk, whichever reader made it.
HeaderValues ==
    IF impl = "iff"
    THEN [family |-> info.metadata.container_type, endian |-> info.metadata.endian,
          master |-> info.metadata.master, form |-> info.metadata.form_type,
          size |-> info.metadata.size]
    ELSE [family |-> structure.format, endian |-> structure.endian,
          master |-> info.master, form |-> info.form, size |-> info.eos]

\* What scenario 1 says of a finished walk, but for the end offset.
Scenario1Walk(end_offset) ==
    /\ HeaderValues = [family |-> "RIFF", endian |-> "little", master |-> RIFF,
                       form |-> WAVE, size |-> 36]
    /\ Len(chunks) = 1
    /\ chunks[1].identifier = ChunkName(1)
    /\ chunks[1].payload = DATA
    /\ chunks[1].start = 12
    /\ ChunkEnd(1) = end_offset

\* C14 as stated: the walk of scenario 1 raises nothing and ends with the
\* header RIFF, little, WAVE, 36 and the one chunk "fmt ", b"DATA", start
\* 12, end 20.
C14_AsStated ==
    (impl # "source" /\ data = Scenario1 /\ start = 0) =>
        /\ pc # "raised"
        /\ pc = "done" => Scenario1Walk(20)

\* C14 amended: the same with end 24, which is 12 + 4 + 4 + 4.
C14_Scenario1 ==
    (impl # "source" /\ data = Scenario1 /\ start = 0) =>
        /\ pc # "raised"
        /\ pc = "done" => Scenario1Walk(24)

\* C14 witness: yield_chunks has finished scenario 1 on the mapped backend.
C14_Witness ==
    /\ impl = "iff" /\ stream = "mmap"
    /\ data = Scenario1 /\ start = 0
    /\ pc = "done"
    /\ Len(chunks) = 1

\* The width of the identifier and size fields of a chunk.
FieldsWidth == structure.identifier_length + structure.payload_size_length

\* The claimed condition of EndOfSource for the chunk reader called at s.
EosDue(s) ==
    \/ s + FieldsWidth > Len(data)
    \/ s + FieldsWidth + (RawSizeAt(s) - structure.overhead) > Len(data)

\* Call i of the chunk reader ended in EOSError: read_all caught it and
\* returned, yield_chunks raised it again.
FailedWithEos(i) ==
    /\ i > Len(ends)
    /\ IF impl = "container" THEN pc = "done" ELSE outcome = "EOSError"

\* C15: the chunk reader called at s ends in EOSError exactly when
\* s + fields > L or s + fields + (raw - overhead) > L, returns a chunk in
\* every other case, and a chunk it returns lies inside the source.
C15_EosExactly ==
    \A i \in 1..Len(calls) :
        /\ EosDue(calls[i]) <=> FailedWithEos(i)
        /\ ~EosDue(calls[i]) => i <= Len(ends)
        /\ i <= Len(ends) =>
              chunks[i].start + FieldsWidth + Len(chunks[i].payload) <= Len(data)

\* C16: every chunk produced ends at start + fields + payload length +
\* padding, the padding being (alignment - length mod alignment) mod
\* alignment for the alignment of the reader's descriptor, so that the
\* bytes after the two fields are a multiple of the alignment; a payload
\* of 3 bytes under alignment 2 is followed by 1 byte of padding before
\* the next chunk.
C16_EndOffsetAligned ==
    \A i \in 1..Len(chunks) :
        LET n == Len(chunks[i].payload)
        IN  /\ ChunkEnd(i) = chunks[i].start + FieldsWidth + n
                                 + Padding(structure.alignment, n)
            /\ (ChunkEnd(i) - chunks[i].start - FieldsWidth) % structure.alignment = 0
            /\ (n = 3 /\ structure.alignment = 2 /\ i < Len(chunks)) =>
                  chunks[i + 1].start = chunks[i].start + FieldsWidth + 3 + 1

\* The walk has stopped: the reader returned, the generator ended, or an
\* exception reached the caller.
Stopped == pc \in {"done", "raised"}

\* Every chunk read that returned left the cursor at least the two fields
\* beyond the cursor it was called at, and the next read was called there
\* or beyond.
CursorAdvances ==
    /\ \A i \in 1..Len(ends) : ends[i] >= calls[i] + FieldsWidth
    /\ \A i \in 1..(Len(calls) - 1) : calls[i + 1] >= calls[i] + FieldsWidth

\* The chunk reads of a walk are finitely many: every read that returned
\* found its two fields inside the source, so there are at most L divided
\* by the width of the two fields of them, and the one read that did not
\* return ended the walk.
ReadsBounded ==
    /\ Len(ends) * (IF chunks = <<>> THEN 0 ELSE FieldsWidth) <= Len(data)
    /\ Len(calls) <= Len(ends) + 1
    /\ Len(calls) > Len(ends) => Stopped

C18_YieldsEveryChunk ==
    (impl = "iff" /\ pc = "done") =>
        \/ SourceTell(stream, data, pos) >= SourceLen(stream, data, pos)
        \/ read_chunk(structure, stream, data, pos).err = "EOSError"

\* C19: read_all called again after source.reset() returns the master, eos
\* and form of the first call and the chunk list the first call returned,
\* in which no chunk of the source appears twice.
C19_RewalkSameResult ==
    (impl = "container" /\ pc = "done" /\ first # None) =>
        /\ ret.master = first.master
        /\ ret.eos = first.eos
        /\ ret.form = first.form
        /\ ret.chunks = first.chunks
        /\ \A i, j \in 1..Len(ret.chunks) :
              i # j => ret.chunks[i].start # ret.chunks[j].start

RECURSIVE yield_chunks(_, _, _, _)
\* list(yield_chunks(source, layout)) from the cursor p: the chunks yielded,
\* the exception that ended the walk if one did, and the cursor left.
yield_chunks(layout, k, d, p) ==
    IF ~yield_chunks_guard(layout, k, d, p)
    THEN [err |-> "none", chunks |-> <<>>, pos |-> p]
    ELSE LET r == read_chunk(layout, k, d, p)
         IN  IF r.err # "none"
             THEN [err |-> r.err, chunks |-> <<>>, pos |-> r.pos]
             ELSE LET rest == yield_chunks(layout, k, d, r.pos)
                  IN  [err |-> rest.err, chunks |-> <<r.chunk>> \o rest.chunks,
                       pos |-> rest.pos]

\* info = derive_container_info(source); list(yield_chunks(source, info.layout))
\* on a source just constructed.
IffWalk(k, d) ==
    LET h == derive_container_info(k, d, 0, 0)
    IN  IF h.err # "none"
        THEN [err |-> h.err, info |-> None, chunks |-> <<>>]
        ELSE LET w == yield_chunks(h.info.layout, k, d, h.pos)
             IN  [err |-> w.err, info |-> h.info, chunks |-> w.chunks]

\* The master tags of the supported families.
FamilyTags == {FORM, RIFX, FFIR, RIFF, riff}

\* The source is a header of a supported family and whole chunks, each
\* with a raw size of at least the overhead and its padding, nothing cut
\* off and nothing in front, and the size field of the header is the length
\* of the source, or the length less the 8 bytes of a 32-bit master tag and
\* size field.
WellFormed ==
    /\ start = 0
    /\ \E tag \in FamilyTags, n \in 0..MaxChunks :
       \E h \in HeaderSizes(tag),
          raws \in [1..n -> {r \in RawSizes(tag) :
                                r >= (IF tag = riff THEN W64_OVERHEAD ELSE 0)}] :
           /\ data = SourceBytes(0, tag, h, raws, 0)
           /\ h \in {Len(data), Len(data) - 8}

\* C20: on a well-formed source of a supported family, read_all with the
\* structure of the family returns the header values and the chunks
\* (identifier, size, payload, start) that derive_container_info and
\* yield_chunks give, and these raise nothing.
C20_ReadersAgree ==
    (impl = "container" /\ pc = "done" /\ WellFormed) =>
        LET w == IffWalk(stream, data)
        IN  /\ w.err = "none"
            /\ w.info.metadata.master = ret.master
            /\ w.info.metadata.size = ret.eos
            /\ w.info.metadata.form_type = ret.form
            /\ Len(w.chunks) = Len(ret.chunks)
            /\ \A i \in 1..Len(ret.chunks) :
                  /\ w.chunks[i].identifier = ret.chunks[i].identifier
                  /\ w.chunks[i].size = ret.chunks[i].size
                  /\ w.chunks[i].payload = ret.chunks[i].payload
                  /\ w.chunks[i].start = ret.chunks[i].start

====
